---------------------------- MODULE Spec2Model ----------------------------
(***************************************************************************)
(* Model of package paginate (src/paginate/paginate.go): the three         *)
(* Paginator strategies BySelector, ByQueryParam and LimitPages, together  *)
(* with the parts of net/url and strconv their NextPage methods call.      *)
(*                                                                         *)
(* URLs, query strings and attribute values are TLA+ strings; the library  *)
(* routines are operators that compute on them character by character, as  *)
(* the Go routines do.  A uint64 is a sequence of decimal digits (most     *)
(* significant first, no leading zero), so that the full 64-bit range and  *)
(* its wrap-around are represented exactly.                                *)
(***************************************************************************)
EXTENDS Integers, Sequences, FiniteSets, TLC

VARIABLES
    pag,         \* the Paginator under test, as built by its constructor
    current,     \* limitPagesPaginator.current
    calls,       \* number of NextPage calls made on pag
    innerCalls,  \* number of NextPage calls received by the underlying Paginator
    chain,       \* length of the current run of calls that feed the result back
    last,        \* arguments and pre-state of the most recent NextPage call
    ret,         \* (string, error) returned by the most recent NextPage call
    innerRet,    \* (string, error) the underlying Paginator returned, if delegated
    serialized,  \* concurrent use: TRUE when the host runs each NextPage under a lock
    pc,          \* concurrent use: each worker's position inside NextPage
    tmp          \* concurrent use: each worker's loaded value of p.current

vars == <<pag, current, calls, innerCalls, chain, last, ret, innerRet,
          serialized, pc, tmp>>

-----------------------------------------------------------------------------
(* Bounds of the model.                                                    *)

MaxLimit == 3
MaxCalls == 3
NumWorkers == 2

-----------------------------------------------------------------------------
(* Strings (package strings).                                              *)

Ch(s, i) == SubSeq(s, i, i)

\* Printable ASCII in byte order, without the backquote (0x60), which the
\* inputs never hold: 0x20..0x5F, then 0x61..0x7E.
AsciiLo == " !\"#$%&'()*+,-./0123456789:;<=>?@ABCDEFGHIJKLMNOPQRSTUVWXYZ[\\]^_"
AsciiHi == "abcdefghijklmnopqrstuvwxyz{|}~"

RECURSIVE IndexFrom(_, _, _)
IndexFrom(s, c, i) ==
    IF i > Len(s) THEN 0
    ELSE IF Ch(s, i) = c THEN i
    ELSE IndexFrom(s, c, i + 1)

\* strings.Index for a one-byte separator, 1-based; 0 when absent.
Index(s, c) == IndexFrom(s, c, 1)

RECURSIVE LastIndexFrom(_, _, _)
LastIndexFrom(s, c, i) ==
    IF i < 1 THEN 0
    ELSE IF Ch(s, i) = c THEN i
    ELSE LastIndexFrom(s, c, i - 1)

LastIndex(s, c) == LastIndexFrom(s, c, Len(s))

Contains(s, c) == Index(s, c) # 0

HasPrefix(s, p) == Len(s) >= Len(p) /\ SubSeq(s, 1, Len(p)) = p

Drop(s, n) == SubSeq(s, n + 1, Len(s))

\* s cut around its i-th character; uncut when i = 0.
CutAt(s, i) ==
    IF i = 0 THEN <<s, "", FALSE>>
    ELSE <<SubSeq(s, 1, i - 1), Drop(s, i), TRUE>>

\* strings.Cut: <<before, after, found>>.
Cut(s, c) == CutAt(s, Index(s, c))

\* The byte value of a character.
Code(c) ==
    IF Contains(AsciiLo, c) THEN 31 + Index(AsciiLo, c) ELSE 96 + Index(AsciiHi, c)

\* The character of a byte value in 0x20..0x7E.
Chr(n) == IF n < 96 THEN Ch(AsciiLo, n - 31) ELSE Ch(AsciiHi, n - 96)

IsDigit(c) == c # "" /\ Contains("0123456789", c)
IsLower(c) == c # "" /\ Contains("abcdefghijklmnopqrstuvwxyz", c)
IsUpper(c) == c # "" /\ Contains("ABCDEFGHIJKLMNOPQRSTUVWXYZ", c)
IsAlpha(c) == IsLower(c) \/ IsUpper(c)

RECURSIVE ToLower(_)
ToLower(s) ==
    IF s = "" THEN ""
    ELSE LET c == Head(s)
         IN  (IF IsUpper(c) THEN Chr(Code(c) + 32) ELSE c)
                 \o ToLower(Tail(s))

\* Byte-wise string order, as Go's < on strings.
RECURSIVE StrLess(_, _)
StrLess(a, b) ==
    IF b = "" THEN FALSE
    ELSE IF a = "" THEN TRUE
    ELSE IF Head(a) = Head(b) THEN StrLess(Tail(a), Tail(b))
    ELSE Code(Head(a)) < Code(Head(b))

-----------------------------------------------------------------------------
(* strconv.ParseUint(s, 10, 64) and strconv.FormatUint(n, 10).             *)

\* 2^64 - 1 = 18446744073709551615
MaxUint64 == <<1,8,4,4,6,7,4,4,0,7,3,7,0,9,5,5,1,6,1,5>>

DigitVal(c) == Index("0123456789", c) - 1

RECURSIVE AllDigits(_)
AllDigits(s) == s = "" \/ (IsDigit(Head(s)) /\ AllDigits(Tail(s)))

RECURSIVE DigitsOf(_)
DigitsOf(s) == IF s = "" THEN <<>> ELSE <<DigitVal(Head(s))>> \o DigitsOf(Tail(s))

RECURSIVE StripZeros(_)
StripZeros(d) ==
    IF Len(d) > 1 /\ Head(d) = 0 THEN StripZeros(Tail(d)) ELSE d

\* d < e for digit sequences of the same length.
RECURSIVE DigitsLess(_, _)
DigitsLess(d, e) ==
    IF d = <<>> THEN FALSE
    ELSE IF Head(d) = Head(e) THEN DigitsLess(Tail(d), Tail(e))
    ELSE Head(d) < Head(e)

\* n > 2^64 - 1
ExceedsUint64(n) ==
    \/ Len(n) > Len(MaxUint64)
    \/ Len(n) = Len(MaxUint64) /\ DigitsLess(MaxUint64, n)

\* ParseUint's range check on the value n of the digits.
CheckRange(n) ==
    IF ExceedsUint64(n) THEN [n |-> MaxUint64, err |-> "ErrRange"]
    ELSE [n |-> n, err |-> "nil"]

\* [n, err]: a syntax error for the empty string, a sign or any non-digit,
\* a range error for a value above 2^64 - 1.
ParseUint(s) ==
    IF s = "" \/ ~AllDigits(s) THEN [n |-> <<0>>, err |-> "ErrSyntax"]
    ELSE CheckRange(StripZeros(DigitsOf(s)))

\* n + 1 on decimal digits, unbounded.
RECURSIVE Succ(_)
Succ(d) ==
    IF d = <<>> THEN <<1>>
    ELSE LET k == Len(d)
         IN  IF d[k] < 9 THEN SubSeq(d, 1, k - 1) \o <<d[k] + 1>>
             ELSE Succ(SubSeq(d, 1, k - 1)) \o <<0>>

\* parsed + 1 in uint64 arithmetic: Go wraps modulo 2^64.
Add1Uint64(n) == IF n = MaxUint64 THEN <<0>> ELSE Succ(n)

RECURSIVE FormatUint(_)
FormatUint(n) ==
    IF n = <<>> THEN ""
    ELSE Ch("0123456789", Head(n) + 1) \o FormatUint(Tail(n))

-----------------------------------------------------------------------------
(* net/url: escaping, Values, ParseQuery and Values.Encode.                *)

IsHex(c) == c # "" /\ Contains("0123456789ABCDEFabcdef", c)

HexVal(c) ==
    IF IsDigit(c) THEN DigitVal(c)
    ELSE IF Contains("ABCDEF", c) THEN 9 + Index("ABCDEF", c)
    ELSE 9 + Index("abcdef", c)

\* unescape's first pass: every '%' is followed by two hex digits.
RECURSIVE ValidEscapes(_)
ValidEscapes(s) ==
    IF s = "" THEN TRUE
    ELSE IF Head(s) = "%"
         THEN Len(s) >= 3 /\ IsHex(Ch(s, 2)) /\ IsHex(Ch(s, 3))
                  /\ ValidEscapes(Drop(s, 3))
         ELSE ValidEscapes(Tail(s))

\* unescape's second pass in mode encodeQueryComponent: "%XY" is the byte
\* XY and '+' is a space.
RECURSIVE Decode(_)
Decode(s) ==
    IF s = "" THEN ""
    ELSE IF Head(s) = "%"
         THEN Chr(16 * HexVal(Ch(s, 2)) + HexVal(Ch(s, 3))) \o Decode(Drop(s, 3))
    ELSE IF Head(s) = "+" THEN " " \o Decode(Tail(s))
    ELSE Head(s) \o Decode(Tail(s))

QueryUnescape(s) ==
    IF ValidEscapes(s) THEN [s |-> Decode(s), err |-> "nil"]
    ELSE [s |-> "", err |-> "EscapeError"]

\* shouldEscape(c, encodeQueryComponent): all but the unreserved characters.
ShouldEscape(c) == ~(IsAlpha(c) \/ IsDigit(c) \/ Contains("-_.~", c))

\* "%XY" for the byte n.
PercentHex(n) ==
    "%" \o Ch("0123456789ABCDEF", (n \div 16) + 1)
        \o Ch("0123456789ABCDEF", (n % 16) + 1)

EscapeChar(c) ==
    IF c = " " THEN "+"
    ELSE IF ShouldEscape(c) THEN PercentHex(Code(c))
    ELSE c

RECURSIVE QueryEscape(_)
QueryEscape(s) ==
    IF s = "" THEN "" ELSE EscapeChar(Head(s)) \o QueryEscape(Tail(s))

\* A url.Values (map[string][]string) is a function from its keys to the
\* sequence of values of each key.
EmptyValues == [k \in {} |-> <<>>]

\* m[key] = append(m[key], value)
AddValue(m, key, value) ==
    IF key \in DOMAIN m THEN [m EXCEPT ![key] = Append(@, value)]
    ELSE m @@ (key :> <<value>>)

RECURSIVE ParseQueryInto(_, _, _)

\* parseQuery's loop body once key and value are unescaped: a pair that
\* fails to unescape is skipped, and the first error is kept.
AddPair(m, err, k, v, rest) ==
    IF k.err # "nil"
    THEN ParseQueryInto(m, IF err = "nil" THEN k.err ELSE err, rest)
    ELSE IF v.err # "nil"
    THEN ParseQueryInto(m, IF err = "nil" THEN v.err ELSE err, rest)
    ELSE ParseQueryInto(AddValue(m, k.s, v.s), err, rest)

\* key, value, _ := strings.Cut(key, "=")
ParseKeyValue(m, err, kv, rest) ==
    AddPair(m, err, QueryUnescape(kv[1]), QueryUnescape(kv[2]), rest)

\* parseQuery's loop body for the pair c[1], c[2] being the rest.
ParsePair(m, err, c) ==
    IF Contains(c[1], ";")
    THEN ParseQueryInto(m, "invalid semicolon separator in query", c[2])
    ELSE IF c[1] = "" THEN ParseQueryInto(m, err, c[2])
    ELSE ParseKeyValue(m, err, Cut(c[1], "="), c[2])

\* parseQuery's loop: [vals, err], err being the first error met.
ParseQueryInto(m, err, query) ==
    IF query = "" THEN [vals |-> m, err |-> err]
    ELSE ParsePair(m, err, Cut(query, "&"))

ParseQuery(query) == ParseQueryInto(EmptyValues, "nil", query)

\* MinKey with the comparison the wrong way round.
MinKeyDescending(K) == CHOOSE k \in K : \A j \in K : j = k \/ StrLess(j, k)

\* The smallest key of a non-empty key set in byte order.
MinKey(K) == CHOOSE k \in K : \A j \in K : j = k \/ StrLess(k, j)

RECURSIVE EncodeKey(_, _)
EncodeKey(k, vs) ==
    IF vs = <<>> THEN ""
    ELSE QueryEscape(k) \o "=" \o QueryEscape(Head(vs))
             \o (IF Len(vs) > 1 THEN "&" ELSE "") \o EncodeKey(k, Tail(vs))

\* Values.Encode: "key=value" pairs joined by '&', the keys sorted, the
\* values of a key in their order.
JoinAmp(a, b) == a \o (IF a # "" /\ b # "" THEN "&" ELSE "") \o b

RECURSIVE EncodeKeys(_, _)

EncodeFrom(v, K, k) == JoinAmp(EncodeKey(k, v[k]), EncodeKeys(v, K \ {k}))

EncodeKeys(v, K) == IF K = {} THEN "" ELSE EncodeFrom(v, K, MinKey(K))

Encode(v) == EncodeKeys(v, DOMAIN v)

-----------------------------------------------------------------------------
(* net/url: URL, Parse, URL.String and URL.ResolveReference.               *)
(*                                                                         *)
(* A url.URL is a record of its fields.  Path and Fragment hold the        *)
(* escaped forms, the ones EscapedPath() and EscapedFragment() return for  *)
(* a validly escaped input; Host holds the whole authority (the inputs     *)
(* carry no userinfo).                                                     *)

NoURL ==
    [Scheme |-> "", Opaque |-> "", Host |-> "", Path |-> "", RawQuery |-> "",
     ForceQuery |-> FALSE, Fragment |-> "", OmitHost |-> FALSE]

IsSchemeTail(c) == IsDigit(c) \/ Contains("+-.", c)

\* getScheme: [scheme, rest, err]; a scheme is a letter followed by letters,
\* digits, '+', '-' and '.', up to the first ':'.
RECURSIVE GetSchemeFrom(_, _)
GetSchemeFrom(rawURL, i) ==
    IF i > Len(rawURL) THEN [scheme |-> "", rest |-> rawURL, err |-> "nil"]
    ELSE LET c == Ch(rawURL, i)
         IN  IF IsAlpha(c) THEN GetSchemeFrom(rawURL, i + 1)
             ELSE IF IsSchemeTail(c)
             THEN IF i = 1 THEN [scheme |-> "", rest |-> rawURL, err |-> "nil"]
                  ELSE GetSchemeFrom(rawURL, i + 1)
             ELSE IF c = ":"
             THEN IF i = 1
                  THEN [scheme |-> "", rest |-> "", err |-> "missing protocol scheme"]
                  ELSE [scheme |-> SubSeq(rawURL, 1, i - 1),
                        rest |-> Drop(rawURL, i), err |-> "nil"]
             ELSE [scheme |-> "", rest |-> rawURL, err |-> "nil"]

GetScheme(rawURL) == GetSchemeFrom(rawURL, 1)

\* validOptionalPort: "" or ':' followed by digits only.
ValidOptionalPort(port) ==
    port = "" \/ (Head(port) = ":" /\ AllDigits(Tail(port)))

\* The characters unescape lets through unescaped in mode encodeHost.
RECURSIVE ValidHostChars(_)
ValidHostChars(h) ==
    \/ h = ""
    \/ /\ LET c == Head(h)
          IN  IsAlpha(c) \/ IsDigit(c) \/ Contains("-_.~!$&'()*+,;=:[]<>", c)
       /\ ValidHostChars(Tail(h))

\* parseHost, for a host that is not a bracketed IP literal.
ParseHost(host) ==
    LET i == LastIndex(host, ":")
    IN  IF i # 0 /\ ~ValidOptionalPort(Drop(host, i - 1))
        THEN [host |-> "", err |-> "invalid port after host"]
        ELSE IF ~ValidHostChars(host)
        THEN [host |-> "", err |-> "invalid character in host name"]
        ELSE [host |-> host, err |-> "nil"]

ParseError(err) == [u |-> NoURL, err |-> err]

\* url.setPath after parseAuthority: h is parseHost's result.
SetHostPath(u0, h, path, omit) ==
    IF h.err # "nil" THEN ParseError(h.err)
    ELSE IF ~ValidEscapes(path) THEN ParseError("invalid URL escape")
    ELSE [u |-> [u0 EXCEPT !.Host = h.host, !.Path = path, !.OmitHost = omit],
          err |-> "nil"]

\* The authority is a up to its first '/', at position i; the path follows.
SplitAuthority(u0, a, i) ==
    SetHostPath(u0, ParseHost(IF i = 0 THEN a ELSE SubSeq(a, 1, i - 1)),
                IF i = 0 THEN "" ELSE Drop(a, i - 1), FALSE)

\* parse, after the scheme and the query are split off rest.
ParseHier(u0, rest) ==
    IF ~HasPrefix(rest, "/") /\ u0.Scheme # ""
    THEN [u |-> [u0 EXCEPT !.Opaque = rest], err |-> "nil"]
    ELSE IF ~HasPrefix(rest, "/") /\ Contains(Cut(rest, "/")[1], ":")
    THEN ParseError("first path segment in URL cannot contain colon")
    ELSE IF (u0.Scheme # "" \/ ~HasPrefix(rest, "///")) /\ HasPrefix(rest, "//")
    THEN SplitAuthority(u0, Drop(rest, 2), Index(Drop(rest, 2), "/"))
    ELSE SetHostPath(u0, [host |-> "", err |-> "nil"], rest,
                     u0.Scheme # "" /\ HasPrefix(rest, "/"))

\* parse: a lone trailing '?' sets ForceQuery, else the query follows the
\* first '?'.
SplitQuery(scheme, rest, q) ==
    IF rest # "" /\ Index(rest, "?") = Len(rest)
    THEN ParseHier([NoURL EXCEPT !.Scheme = scheme, !.ForceQuery = TRUE],
                   SubSeq(rest, 1, Len(rest) - 1))
    ELSE ParseHier([NoURL EXCEPT !.Scheme = scheme, !.RawQuery = q[2]], q[1])

AfterScheme(g) ==
    IF g.err # "nil" THEN ParseError(g.err)
    ELSE SplitQuery(ToLower(g.scheme), g.rest, Cut(g.rest, "?"))

\* parse(rawURL, viaRequest = false), rawURL without its fragment.
ParseNoFragment(rawURL) == AfterScheme(GetScheme(rawURL))

\* url.setFragment on parse's result r.
SetFragment(r, frag) ==
    IF r.err # "nil" \/ frag = "" THEN r
    ELSE IF ~ValidEscapes(frag) THEN ParseError("invalid URL escape")
    ELSE [u |-> [r.u EXCEPT !.Fragment = frag], err |-> "nil"]

CutFragment(c) == SetFragment(ParseNoFragment(c[1]), c[2])

\* url.Parse: [u, err].  The fragment is cut off first; an empty fragment
\* leaves no trace in the URL.
Parse(rawURL) == CutFragment(Cut(rawURL, "#"))

\* URL.String.
String(u) ==
    LET scheme == IF u.Scheme # "" THEN u.Scheme \o ":" ELSE ""
        slashes == IF (u.Scheme # "" \/ u.Host # "")
                       /\ ~(u.OmitHost /\ u.Host = "")
                       /\ (u.Host # "" \/ u.Path # "")
                   THEN "//" ELSE ""
        auth   == IF u.Scheme # "" \/ u.Host # "" THEN slashes \o u.Host ELSE ""
        slash  == IF u.Path # "" /\ Head(u.Path) # "/" /\ u.Host # ""
                  THEN "/" ELSE ""
        dot    == IF scheme = "" /\ auth = "" /\ slash = ""
                       /\ Contains(Cut(u.Path, "/")[1], ":")
                  THEN "./" ELSE ""
        body   == IF u.Opaque # "" THEN u.Opaque
                  ELSE auth \o slash \o dot \o u.Path
        query  == IF u.ForceQuery \/ u.RawQuery # "" THEN "?" \o u.RawQuery ELSE ""
        frag   == IF u.Fragment # "" THEN "#" \o u.Fragment ELSE ""
    IN  scheme \o body \o query \o frag

RECURSIVE ResolveElems(_, _, _)

\* ".." drops the last element of dst; idx is the last '/' of dst[1:].
PopElem(dst, idx) ==
    IF idx = 0 THEN "/" ELSE "/" \o SubSeq(dst, 2, idx)

\* One turn of resolvePath's loop: c is strings.Cut(remaining, "/").
ResolveElem(dst, first, c, idx) ==
    IF c[1] = "."
    THEN IF c[3] THEN ResolveElems(dst, FALSE, c[2]) ELSE dst \o "/"
    ELSE IF c[1] = ".."
    THEN IF c[3] THEN ResolveElems(PopElem(dst, idx), idx = 0 \/ first, c[2])
         ELSE PopElem(dst, idx) \o "/"
    ELSE IF c[3]
    THEN ResolveElems(dst \o (IF first THEN "" ELSE "/") \o c[1], FALSE, c[2])
    ELSE dst \o (IF first THEN "" ELSE "/") \o c[1]

\* resolvePath's loop over the '/'-separated elements of remaining: dst is
\* the path built so far, first tells that no element was written yet.
ResolveElems(dst, first, remaining) ==
    ResolveElem(dst, first, Cut(remaining, "/"), LastIndex(Tail(dst), "/"))

\* We wrote an initial '/', but we don't want two.
TrimSlash(r) == IF Len(r) > 1 /\ Ch(r, 2) = "/" THEN Tail(r) ELSE r

ResolveFull(full) ==
    IF full = "" THEN "" ELSE TrimSlash(ResolveElems("/", TRUE, full))

\* resolvePath(base, ref).
ResolvePath(base, ref) ==
    ResolveFull(IF ref = "" THEN base
                ELSE IF Head(ref) # "/"
                THEN SubSeq(base, 1, LastIndex(base, "/")) \o ref
                ELSE ref)

\* URL.ResolveReference: u is the base.
ResolveReference(u, ref) ==
    LET url == [ref EXCEPT !.Scheme = IF ref.Scheme = "" THEN u.Scheme ELSE @]
    IN  IF ref.Scheme # "" \/ ref.Host # ""
        THEN [url EXCEPT !.Path = ResolvePath(ref.Path, "")]
        ELSE IF ref.Opaque # ""
        THEN [url EXCEPT !.Host = "", !.Path = ""]
        ELSE
        LET same == ref.Path = "" /\ ~ref.ForceQuery /\ ref.RawQuery = ""
            url1 == IF same
                    THEN [url EXCEPT !.RawQuery = u.RawQuery,
                                     !.Fragment = IF ref.Fragment = ""
                                                  THEN u.Fragment ELSE @]
                    ELSE url
        IN  IF ref.Path = "" /\ u.Opaque # ""
            THEN [url1 EXCEPT !.Opaque = u.Opaque, !.Host = "", !.Path = ""]
            ELSE [url1 EXCEPT !.Host = u.Host,
                              !.Path = ResolvePath(u.Path, ref.Path)]

-----------------------------------------------------------------------------
(* goquery: a document is the sequence of its elements in document order,  *)
(* each with a tag and its attributes; a selector is a type selector.      *)

NoAttrs == [k \in {} |-> ""]

Element(tag, attrs) == [tag |-> tag, attrs |-> attrs]

\* doc.Find(sel): the elements that match, in document order.
Find(doc, sel) == SelectSeq(doc, LAMBDA e : e.tag = sel)

\* Selection.Attr(attr): the attribute of the first element of the selection.
Attr(selection, attr) ==
    IF selection = <<>> THEN [val |-> "", found |-> FALSE]
    ELSE IF attr \in DOMAIN Head(selection).attrs
    THEN [val |-> Head(selection).attrs[attr], found |-> TRUE]
    ELSE [val |-> "", found |-> FALSE]

-----------------------------------------------------------------------------
(* The paginators.  A NextPage result is [url, err], err = "nil" for none. *)

Result(url, err) == [url |-> url, err |-> err]

\* return "", nil
Stop == Result("", "nil")

BySelector(sel, attr) == [kind |-> "selector", sel |-> sel, attr |-> attr]

ByQueryParam(param) == [kind |-> "query", param |-> param]

LimitPages(limit, underlying) ==
    [kind |-> "limit", limit |-> limit, underlying |-> underlying]

\* bySelectorPaginator.NextPage, from attrUrl, err := url.Parse(val)
SelectorResolve(base, attrUrl) ==
    IF attrUrl.err # "nil" THEN Result("", attrUrl.err)
    ELSE Result(String(ResolveReference(base, attrUrl.u)), "nil")

\* bySelectorPaginator.NextPage, from base, err := url.Parse(uri)
SelectorBase(base, val) ==
    IF base.err # "nil" THEN Result("", base.err)
    ELSE SelectorResolve(base.u, Parse(val))

\* bySelectorPaginator.NextPage, from the attribute lookup a
SelectorFound(a, uri) ==
    IF ~a.found THEN Stop ELSE SelectorBase(Parse(uri), a.val)

\* bySelectorPaginator.NextPage
SelectorNextPage(p, uri, doc) ==
    SelectorFound(Attr(Find(doc, p.sel), p.attr), uri)

\* QueryIncrement with the TODO of line 78 answered "yes": a value that is
\* not a uint64 is fatal.
QueryIncrementFatal(p, uri, vals, parsed) ==
    IF parsed.err # "nil" THEN Result("", parsed.err)
    ELSE Result(String([uri EXCEPT !.RawQuery =
                   Encode([vals EXCEPT ![p.param][1] =
                              FormatUint(Add1Uint64(parsed.n))])]),
                "nil")

\* QueryIncrement that stops instead of wrapping at 2^64 - 1.
QueryIncrementStopAtMax(p, uri, vals, parsed) ==
    IF parsed.err # "nil" \/ parsed.n = MaxUint64 THEN Stop
    ELSE Result(String([uri EXCEPT !.RawQuery =
                   Encode([vals EXCEPT ![p.param][1] =
                              FormatUint(Add1Uint64(parsed.n))])]),
                "nil")

\* byQueryParamPaginator.NextPage, from "Put everything back together"
QueryIncrement(p, uri, vals, parsed) ==
    IF parsed.err # "nil" THEN Stop
    ELSE Result(String([uri EXCEPT !.RawQuery =
                   Encode([vals EXCEPT ![p.param][1] =
                              FormatUint(Add1Uint64(parsed.n))])]),
                "nil")

\* byQueryParamPaginator.NextPage, from vals, err := url.ParseQuery(...)
QueryVals(p, uri, q) ==
    IF q.err # "nil" THEN Result("", q.err)
    ELSE IF p.param \notin DOMAIN q.vals \/ Len(q.vals[p.param]) < 1 THEN Stop
    ELSE QueryIncrement(p, uri, q.vals, ParseUint(q.vals[p.param][1]))

\* byQueryParamPaginator.NextPage, from uri, err := url.Parse(u)
QueryParsed(p, uri) ==
    IF uri.err # "nil" THEN Result("", uri.err)
    ELSE QueryVals(p, uri.u, ParseQuery(uri.u.RawQuery))

\* byQueryParamPaginator.NextPage
QueryNextPage(p, u) == QueryParsed(p, Parse(u))

\* The Paginator interface: NextPage of a leaf strategy.
LeafNextPage(p, uri, doc) ==
    IF p.kind = "selector" THEN SelectorNextPage(p, uri, doc)
    ELSE QueryNextPage(p, uri)

\* LimitReached off by one: limit taken as the last page allowed.
LimitReachedOffByOne(p, cur) == cur > p.limit

\* limitPagesPaginator.NextPage: the test p.current >= p.limit.
LimitReached(p, cur) == cur >= p.limit

\* NextCurrent with the increment placed before the test.
NextCurrentAlways(p, cur) == cur + 1

\* limitPagesPaginator.NextPage: p.current after the call.
NextCurrent(p, cur) == IF LimitReached(p, cur) THEN cur ELSE cur + 1

\* Delegate that swallows the error of the underlying Paginator.
DelegateDropError(p, uri, doc) ==
    Result(LeafNextPage(p.underlying, uri, doc).url, "nil")

\* limitPagesPaginator.NextPage: return p.underlying.NextPage(url, sel)
Delegate(p, uri, doc) == LeafNextPage(p.underlying, uri, doc)

-----------------------------------------------------------------------------
(* RFC 3986 section 5: the reference resolution algorithm, the yardstick   *)
(* of the claim on SelectorPaginator.  A component is [def, s]: whether it *)
(* is defined, and its text.                                               *)

Undefined == [def |-> FALSE, s |-> ""]
Defined(s) == [def |-> TRUE, s |-> s]

\* The first position of s holding one of the characters of set, or
\* Len(s) + 1.
RECURSIVE FirstOf(_, _, _)
FirstOf(s, set, i) ==
    IF i > Len(s) \/ Contains(set, Ch(s, i)) THEN i ELSE FirstOf(s, set, i + 1)

\* Appendix B:  ^(([^:/?#]+):)?(//([^/?#]*))?([^?#]*)(\?([^#]*))?(#(.*))?
Rfc3986Parse(r) ==
    LET i      == FirstOf(r, ":/?#", 1)
        hasS   == i > 1 /\ i <= Len(r) /\ Ch(r, i) = ":"
        r1     == IF hasS THEN Drop(r, i) ELSE r
        hasA   == HasPrefix(r1, "//")
        j      == FirstOf(r1, "/?#", 3)
        r2     == IF hasA THEN Drop(r1, j - 1) ELSE r1
        k      == FirstOf(r2, "?#", 1)
        r3     == Drop(r2, k - 1)
        hasQ   == HasPrefix(r3, "?")
        l      == FirstOf(r3, "#", 1)
        r4     == Drop(r3, l - 1)
    IN  [scheme    |-> IF hasS THEN Defined(SubSeq(r, 1, i - 1)) ELSE Undefined,
         authority |-> IF hasA THEN Defined(SubSeq(r1, 3, j - 1)) ELSE Undefined,
         path      |-> SubSeq(r2, 1, k - 1),
         query     |-> IF hasQ THEN Defined(SubSeq(r3, 2, l - 1)) ELSE Undefined,
         fragment  |-> IF HasPrefix(r4, "#") THEN Defined(Tail(r4)) ELSE Undefined]

\* 5.2.4, step 2C: the output buffer without its last segment and the "/"
\* before it.
DropLastSegment(out) == SubSeq(out, 1, LastIndex(out, "/") - 1)

\* 5.2.4  Remove Dot Segments, on the input and output buffers.
RECURSIVE RemoveDots(_, _)
RemoveDots(in, out) ==
    IF in = "" THEN out
    ELSE IF HasPrefix(in, "../") THEN RemoveDots(Drop(in, 3), out)
    ELSE IF HasPrefix(in, "./") THEN RemoveDots(Drop(in, 2), out)
    ELSE IF HasPrefix(in, "/./") THEN RemoveDots(Drop(in, 2), out)
    ELSE IF in = "/." THEN RemoveDots("/", out)
    ELSE IF HasPrefix(in, "/../") THEN RemoveDots(Drop(in, 3), DropLastSegment(out))
    ELSE IF in = "/.." THEN RemoveDots("/", DropLastSegment(out))
    ELSE IF in = "." \/ in = ".." THEN RemoveDots("", out)
    ELSE LET n == FirstOf(in, "/", 2)
         IN  RemoveDots(Drop(in, n - 1), out \o SubSeq(in, 1, n - 1))

RemoveDotSegments(path) == RemoveDots(path, "")

\* 5.2.3  Merge Paths.
Merge(base, rpath) ==
    IF base.authority.def /\ base.path = "" THEN "/" \o rpath
    ELSE SubSeq(base.path, 1, LastIndex(base.path, "/")) \o rpath

\* 5.2.2  Transform References (strict).
Transform(base, r) ==
    IF r.scheme.def
    THEN [r EXCEPT !.path = RemoveDotSegments(@)]
    ELSE IF r.authority.def
    THEN [r EXCEPT !.scheme = base.scheme, !.path = RemoveDotSegments(@)]
    ELSE IF r.path = ""
    THEN [scheme |-> base.scheme, authority |-> base.authority,
          path |-> base.path,
          query |-> IF r.query.def THEN r.query ELSE base.query,
          fragment |-> r.fragment]
    ELSE [scheme |-> base.scheme, authority |-> base.authority,
          path |-> IF HasPrefix(r.path, "/") THEN RemoveDotSegments(r.path)
                   ELSE RemoveDotSegments(Merge(base, r.path)),
          query |-> r.query,
          fragment |-> r.fragment]

\* 5.3  Component Recomposition.
Recompose(t) ==
    (IF t.scheme.def THEN t.scheme.s \o ":" ELSE "")
        \o (IF t.authority.def THEN "//" \o t.authority.s ELSE "")
        \o t.path
        \o (IF t.query.def THEN "?" \o t.query.s ELSE "")
        \o (IF t.fragment.def THEN "#" \o t.fragment.s ELSE "")

\* The target URI of reference r against base URI b.
Rfc3986Resolve(b, r) == Recompose(Transform(Rfc3986Parse(b), Rfc3986Parse(r)))

-----------------------------------------------------------------------------
(* The inputs of the calls: pages a crawl can meet.                        *)

\* The query parameter and the selector the paginators are built with.
Param == "page"
Sel   == "a"
AttrName == "href"

\* Current URLs handed to a ByQueryParam paginator.
QueryURLs ==
    {"http://x/?page=3", "http://x/?sort=asc&page=3", "http://x/",
     "http://x/?page=abc", "http://x/?page=", "http://x/?page=-1",
     "http://x/?page=18446744073709551614",
     "http://x/?page=18446744073709551615",
     "http://x/?page=18446744073709551616",
     "http://x/?page=99999999999999999999",
     "http://x/?page=007&page=5&a=b+c",
     "http://x/?page=18446744073709551615&page=7",
     "http://x/?page=2&page=x&q=%7E&page=2",
     "http://x/list?z=1&page=9&a=2#top",
     "http://x/?a=1&a=2",
     "http://x/?page=1&x=%zz", "http://x/?page=%zz",
     ":bad", "http://x:y/?page=1", "http://x/%zz?page=1"}

\* Current URLs handed to a BySelector paginator.
BaseURLs ==
    {"http://a/b/c/d;p?q", "http://x/list?page=2#top", ":bad", "http://x/%zz"}

\* Values of the attribute of the first matching element.
Refs ==
    {"g", "../g", "/g", "//g", "?y", "#s", "g?y#s", "", "../../../g",
     "http://h/a/../b", "g#", "#", "%zz", ":x"}

\* A page with a link: an element that does not match, then the link.
DocWith(ref) ==
    <<Element("p", NoAttrs), Element(Sel, AttrName :> ref),
      Element(Sel, AttrName :> "other")>>

\* Pages without a next link: no element matches; the first matching
\* element lacks the attribute (a later one has it).
DocNoMatch == <<Element("p", AttrName :> "g")>>
DocNoAttr  == <<Element(Sel, "class" :> "next"), Element(Sel, AttrName :> "g")>>

Docs == {DocWith(r) : r \in Refs} \cup {DocNoMatch, DocNoAttr}

Leaf(p) == IF p.kind = "limit" THEN p.underlying ELSE p

\* The pages a crawl may start a call with.
FreshInputs(p) ==
    IF Leaf(p).kind = "query"
    THEN {[uri |-> u, doc |-> DocNoMatch, follow |-> FALSE] : u \in QueryURLs}
    ELSE {[uri |-> u, doc |-> d, follow |-> FALSE] : u \in BaseURLs, d \in Docs}

\* The crawler fetches the URL the last call returned and asks again.
FollowInputs(p) ==
    IF calls = 0 \/ ret.err # "nil" \/ ret.url = "" THEN {}
    ELSE {[uri |-> ret.url, doc |-> d, follow |-> TRUE] :
             d \in IF Leaf(p).kind = "query" THEN {DocNoMatch}
                   ELSE {DocWith("?y"), DocWith("../g"), DocNoAttr}}

Inputs(p) == FreshInputs(p) \cup FollowInputs(p)

-----------------------------------------------------------------------------
(* The state machine: one Paginator, called sequentially by a crawler.     *)

Workers == 1..NumWorkers

\* innerRet when the call did not reach the underlying Paginator.
NotInvoked == Result("", "not invoked")

Paginators ==
    {BySelector(Sel, AttrName), ByQueryParam(Param)}
        \cup {LimitPages(l, u) : l \in -1..MaxLimit,
                                 u \in {BySelector(Sel, AttrName), ByQueryParam(Param)}}

Init ==
    /\ pag \in Paginators
    /\ current = 0
    /\ calls = 0
    /\ innerCalls = 0
    /\ chain = 0
    /\ last = [uri |-> "", doc |-> <<>>, cur0 |-> 0, inner0 |-> 0]
    /\ ret = Stop
    /\ innerRet = NotInvoked
    /\ serialized = TRUE
    /\ pc = [w \in Workers |-> "idle"]
    /\ tmp = [w \in Workers |-> 0]

\* What every call records about itself.
Called(in) ==
    /\ calls < MaxCalls
    /\ calls' = calls + 1
    /\ chain' = IF in.follow THEN chain + 1 ELSE 1
    /\ last' = [uri |-> in.uri, doc |-> in.doc, cur0 |-> current,
                inner0 |-> innerCalls]
    /\ UNCHANGED <<pag, serialized, pc, tmp>>

\* A call of bySelectorPaginator.NextPage.
SelectorCall ==
    /\ pag.kind = "selector"
    /\ \E in \in Inputs(pag) :
          /\ Called(in)
          /\ ret' = SelectorNextPage(pag, in.uri, in.doc)
          /\ innerRet' = NotInvoked
          /\ UNCHANGED <<current, innerCalls>>

\* A call of byQueryParamPaginator.NextPage.
QueryCall ==
    /\ pag.kind = "query"
    /\ \E in \in Inputs(pag) :
          /\ Called(in)
          /\ ret' = QueryNextPage(pag, in.uri)
          /\ innerRet' = NotInvoked
          /\ UNCHANGED <<current, innerCalls>>

\* A call of limitPagesPaginator.NextPage.
LimitCall ==
    /\ pag.kind = "limit"
    /\ \E in \in Inputs(pag) :
          /\ Called(in)
          /\ current' = NextCurrent(pag, current)
          /\ IF LimitReached(pag, current)
             THEN /\ ret' = Stop
                  /\ innerRet' = NotInvoked
                  /\ UNCHANGED innerCalls
             ELSE /\ innerCalls' = innerCalls + 1
                  /\ innerRet' = LeafNextPage(pag.underlying, in.uri, in.doc)
                  /\ ret' = Delegate(pag, in.uri, in.doc)

Next == SelectorCall \/ QueryCall \/ LimitCall

Spec == Init /\ [][Next]_vars

-----------------------------------------------------------------------------
(* Concurrent use: NumWorkers crawl workers share one limitPagesPaginator. *)
(* Unless the host serializes the calls, the test, the load and the store  *)
(* of p.current and the delegation are separate steps of each worker.      *)

RaceInit ==
    /\ pag \in {LimitPages(l, ByQueryParam(Param)) : l \in 0..MaxLimit}
    /\ serialized \in BOOLEAN
    /\ current = 0
    /\ calls = 0
    /\ innerCalls = 0
    /\ chain = 0
    /\ last = [uri |-> "", doc |-> <<>>, cur0 |-> 0, inner0 |-> 0]
    /\ ret = Stop
    /\ innerRet = NotInvoked
    /\ pc = [w \in Workers |-> "idle"]
    /\ tmp = [w \in Workers |-> 0]

\* A whole NextPage call under the host's lock.
LockedCall(w) ==
    /\ serialized
    /\ pc[w] = "idle"
    /\ calls < MaxCalls
    /\ calls' = calls + 1
    /\ current' = NextCurrent(pag, current)
    /\ innerCalls' = IF LimitReached(pag, current) THEN innerCalls
                     ELSE innerCalls + 1
    /\ UNCHANGED <<pag, chain, last, ret, innerRet, serialized, pc, tmp>>

\* if p.current >= p.limit { return "", nil }
Check(w) ==
    /\ ~serialized
    /\ pc[w] = "idle"
    /\ calls < MaxCalls
    /\ calls' = calls + 1
    /\ pc' = [pc EXCEPT ![w] = IF LimitReached(pag, current) THEN "idle"
                                ELSE "load"]
    /\ UNCHANGED <<pag, current, innerCalls, chain, last, ret, innerRet,
                   serialized, tmp>>

\* p.current += 1, the load
Load(w) ==
    /\ pc[w] = "load"
    /\ tmp' = [tmp EXCEPT ![w] = current]
    /\ pc' = [pc EXCEPT ![w] = "store"]
    /\ UNCHANGED <<pag, current, calls, innerCalls, chain, last, ret,
                   innerRet, serialized>>

\* p.current += 1, the store
Store(w) ==
    /\ pc[w] = "store"
    /\ current' = tmp[w] + 1
    /\ pc' = [pc EXCEPT ![w] = "delegate"]
    /\ UNCHANGED <<pag, calls, innerCalls, chain, last, ret, innerRet,
                   serialized, tmp>>

\* return p.underlying.NextPage(url, sel)
DelegateStep(w) ==
    /\ pc[w] = "delegate"
    /\ innerCalls' = innerCalls + 1
    /\ pc' = [pc EXCEPT ![w] = "idle"]
    /\ UNCHANGED <<pag, current, calls, chain, last, ret, innerRet,
                   serialized, tmp>>

RaceNext ==
    \E w \in Workers :
        LockedCall(w) \/ Check(w) \/ Load(w) \/ Store(w) \/ DelegateStep(w)

SpecRace == RaceInit /\ [][RaceNext]_vars

-----------------------------------------------------------------------------
(* Properties of LimitPages.                                               *)

Min(a, b) == IF a < b THEN a ELSE b

IsLimit == pag.kind = "limit"

\* What the underlying Paginator answers to the arguments of the last call.
UnderlyingResult == LeafNextPage(pag.underlying, last.uri, last.doc)

\* C1: for a limitPagesPaginator built with limit L >= 0, after n sequential
\* NextPage calls the underlying Paginator was invoked min(n, L) times and
\* current = min(n, L); each of the first L calls delegates once and returns
\* the underlying result unchanged, every later call returns ("", nil)
\* without invoking the underlying Paginator.
LimitDelegatesFirstCallsOnly ==
    (IsLimit /\ pag.limit >= 0) =>
        /\ innerCalls = Min(calls, pag.limit)
        /\ current = Min(calls, pag.limit)
        /\ (calls > 0 /\ calls <= pag.limit) =>
              /\ innerCalls = last.inner0 + 1
              /\ innerRet # NotInvoked
              /\ ret = innerRet
        /\ calls > pag.limit =>
              /\ innerCalls = last.inner0
              /\ innerRet = NotInvoked
              /\ ret = Stop

\* With limit = 1 the second call has returned ("", nil) and the underlying
\* Paginator was invoked once, by the first call.
SecondCallStopsAtLimitOne ==
    /\ IsLimit
    /\ pag.limit = 1
    /\ calls = 2
    /\ ret = Stop
    /\ innerCalls = 1
    /\ current = 1

\* C2: 0 <= current always, and a NextPage call made with current >= limit
\* returns ("", nil), leaves current unchanged and does not invoke the
\* underlying Paginator, whatever the arguments and however often repeated.
LimitCapIsIdempotent ==
    /\ current >= 0
    /\ (IsLimit /\ calls > 0 /\ last.cur0 >= pag.limit) =>
          /\ ret = Stop
          /\ current = last.cur0
          /\ innerCalls = last.inner0
          /\ innerRet = NotInvoked

\* Two calls in a row were made at the cap, on a page whose underlying
\* strategy would have gone on.
RepeatedCallsAtCap ==
    /\ IsLimit
    /\ pag.limit = 1
    /\ calls = 3
    /\ last.cur0 = 1
    /\ current = 1
    /\ UnderlyingResult.url # ""

\* C3: when NextPage is called with current < limit and the underlying
\* NextPage returns an error, that error is returned unchanged and current
\* has gone up by exactly 1.
LimitCountsFailedDelegation ==
    (IsLimit /\ calls > 0 /\ last.cur0 < pag.limit
         /\ UnderlyingResult.err # "nil") =>
        /\ ret = UnderlyingResult
        /\ current = last.cur0 + 1

\* A delegated call failed and consumed one unit of the limit.
FailedDelegationCounted ==
    /\ IsLimit
    /\ calls > 0
    /\ last.cur0 < pag.limit
    /\ ret.err # "nil"
    /\ ret.url = ""
    /\ current = last.cur0 + 1

\* C10: when each NextPage call runs under the host's lock, neither current
\* nor the number of delegations ever exceeds limit; the unsynchronized test
\* and increment are what lets concurrent workers pass the cap.
SerializedCallsKeepTheCap ==
    serialized => (current <= pag.limit /\ innerCalls <= pag.limit)

\* Unsynchronized workers both passed the test at current = limit - 1: the
\* underlying Paginator was invoked more than limit times and current
\* exceeds limit.
RaceExceedsTheCap ==
    /\ ~serialized
    /\ innerCalls > pag.limit
    /\ current > pag.limit

-----------------------------------------------------------------------------
(* Properties of ByQueryParam.                                             *)

\* The last call reached the NextPage of a leaf strategy of this kind:
\* directly, or through a limitPagesPaginator that delegated.
LeafCalled(kind) ==
    /\ calls > 0
    /\ Leaf(pag).kind = kind
    /\ IsLimit => last.cur0 < pag.limit

\* What the leaf strategy returned in the last call.
LeafRet == IF IsLimit THEN innerRet ELSE ret

\* The query string of a URL, as written: between the first '?' and '#'.
QueryText(u) == Cut(Cut(u, "#")[1], "?")[2]

\* The URL without its query string: what precedes '?', and the fragment.
AroundQuery(u) == <<Cut(Cut(u, "#")[1], "?")[1], Cut(u, "#")[2]>>

\* The parameters of a query string in their order of appearance, each
\* <<name, value>> decoded.
RECURSIVE PairsOf(_)
PairsOf(query) ==
    IF query = "" THEN <<>>
    ELSE LET c  == Cut(query, "&")
             kv == Cut(c[1], "=")
         IN  (IF c[1] = "" THEN <<>> ELSE <<<<Decode(kv[1]), Decode(kv[2])>>>>)
                 \o PairsOf(c[2])

\* The values of parameter name, in order.
RECURSIVE ValuesOf(_, _)
ValuesOf(pairs, name) ==
    IF pairs = <<>> THEN <<>>
    ELSE (IF Head(pairs)[1] = name THEN <<Head(pairs)[2]>> ELSE <<>>)
             \o ValuesOf(Tail(pairs), name)

\* pairs with the value of the first parameter called name replaced.
RECURSIVE ReplaceFirst(_, _, _)
ReplaceFirst(pairs, name, value) ==
    IF pairs = <<>> THEN <<>>
    ELSE IF Head(pairs)[1] = name THEN <<<<name, value>>>> \o Tail(pairs)
    ELSE <<Head(pairs)>> \o ReplaceFirst(Tail(pairs), name, value)

Names(pairs) == {pairs[i][1] : i \in 1..Len(pairs)}

\* A base-10 unsigned integer: one or more digits, no sign.
IsDecimal(v) == v # "" /\ AllDigits(v)

\* The URL of the last call parses, and so does its query string.
InputParses ==
    /\ Parse(last.uri).err = "nil"
    /\ ParseQuery(Parse(last.uri).u.RawQuery).err = "nil"

InputPairs == PairsOf(QueryText(last.uri))

\* The first value of the configured parameter in the URL of the last call.
HasParam == ValuesOf(InputPairs, Param) # <<>>
FirstValue == Head(ValuesOf(InputPairs, Param))

\* The number the first value denotes, as digits.
FirstNumber == StripZeros(DigitsOf(FirstValue))

\* The last call was byQueryParamPaginator.NextPage on a URL whose
\* configured parameter has a base-10 value that fits a uint64.
IncrementCase ==
    /\ LeafCalled("query")
    /\ InputParses
    /\ HasParam
    /\ IsDecimal(FirstValue)
    /\ ~ExceedsUint64(FirstNumber)

\* N + 1 in decimal, N being the first value.
Incremented == FormatUint(Succ(FirstNumber))

\* N + 1 in uint64 arithmetic, in decimal: 2^64 - 1 wraps to 0.
IncrementedUint64 == IF FirstNumber = MaxUint64 THEN "0" ELSE Incremented

OutputPairs == PairsOf(QueryText(LeafRet.url))

\* The parameter names never decrease along pairs, in byte order.
SortedByName(pairs) ==
    \A i \in 1..(Len(pairs) - 1) :
        pairs[i][1] = pairs[i + 1][1] \/ StrLess(pairs[i][1], pairs[i + 1][1])

OverflowIsAnError ==
    (LeafCalled("query") /\ InputParses /\ HasParam /\ IsDecimal(FirstValue)
         /\ (FirstNumber = MaxUint64 \/ ExceedsUint64(FirstNumber))) =>
        LeafRet.err # "nil"

OutputIsIncrementCase ==
    /\ Parse(LeafRet.url).err = "nil"
    /\ ParseQuery(Parse(LeafRet.url).u.RawQuery).err = "nil"
    /\ ValuesOf(OutputPairs, Param) # <<>>
    /\ IsDecimal(Head(ValuesOf(OutputPairs, Param)))
    /\ ~ExceedsUint64(StripZeros(DigitsOf(Head(ValuesOf(OutputPairs, Param)))))

OnlyFirstValueIncremented ==
    (IncrementCase /\ Len(ValuesOf(InputPairs, Param)) > 1) =>
        /\ LeafRet.err = "nil"
        /\ \A k \in Names(InputPairs) \cup Names(OutputPairs) :
              ValuesOf(OutputPairs, k) =
                  ValuesOf(ReplaceFirst(InputPairs, Param, Incremented), k)

-----------------------------------------------------------------------------
(* Properties of BySelector, and of the three strategies together.         *)

\* The attribute lookup of the last call.
Looked == Attr(Find(last.doc, Sel), AttrName)

\* "Nothing more to paginate", for each strategy.
SelectorHasNoLink == LeafCalled("selector") /\ ~Looked.found

QueryHasNoNumber ==
    /\ LeafCalled("query")
    /\ InputParses
    /\ (~HasParam \/ ~IsDecimal(FirstValue))

LimitIsReached == IsLimit /\ calls > 0 /\ last.cur0 >= pag.limit

\* A URL parse failure or a query-string parse failure met by the leaf
\* strategy in the last call.
ParseFailure ==
    \/ /\ LeafCalled("selector")
       /\ Looked.found
       /\ (Parse(last.uri).err # "nil" \/ Parse(Looked.val).err # "nil")
    \/ /\ LeafCalled("query")
       /\ ~InputParses

\* C6: every "nothing more to paginate" condition yields ("", nil): no
\* selector match or no attribute on the first match, whatever the current
\* URL; a parseable URL and query string with the parameter absent or its
\* first value not a base-10 unsigned integer; current >= limit.  An error
\* is returned only for a URL or query-string parse failure, the wrapper
\* passing on that of the strategy it wraps.
EndOfPaginationIsNotAnError ==
    /\ (SelectorHasNoLink \/ QueryHasNoNumber) => LeafRet = Stop
    /\ (SelectorHasNoLink \/ QueryHasNoNumber \/ LimitIsReached) => ret = Stop
    /\ (calls > 0 /\ ret.err # "nil") => ParseFailure

\* A non-numeric value of the parameter ended the pagination silently.
NonNumericValueStopped ==
    /\ pag.kind = "query"
    /\ calls > 0
    /\ last.uri = "http://x/?page=abc"
    /\ ret = Stop

\* C7: when the attribute is present, NextPage returns exactly the RFC 3986
\* section 5 resolution of the attribute value against the current URL.
SelectorResolvesPerRfc3986 ==
    (LeafCalled("selector") /\ Looked.found /\ LeafRet.err = "nil") =>
        LeafRet.url = Rfc3986Resolve(last.uri, Looked.val)

=============================================================================
